---- MODULE Spec2Model ----
(***************************************************************************)
(* Session-scoped inventory-scan tracker (app-control-stock).               *)
(*                                                                         *)
(* Two deployments of the same Express service exist: the stricter one     *)
(* (src/unnamed/part_000, code column VARCHAR(50)) and the basic one       *)
(* (src/backend/server.js, code column INTEGER).  The handlers for         *)
(* PUT /save/:id, DELETE /delete/:id, GET /records, GET /recover and       *)
(* GET /export are textually identical in both; POST /save and the table   *)
(* schema differ.  The variable "variant" fixes the deployment.            *)
(*                                                                         *)
(* Every handler issues one store statement, except GET /export, which     *)
(* issues the aggregation read, awaits the workbook buffer, sends the      *)
(* response and then issues the purge; the model gives GET /export one     *)
(* step per suspension point so that other requests interleave.            *)
(***************************************************************************)
EXTENDS Integers, Sequences, FiniteSets, TLC

\* Number of ids the SERIAL sequence hands out before Create stops inserting.
MaxId == 2

\* part_000: "if (code.length > 50)" and "code VARCHAR(50)".
MaxCodeLen == 50

VARIABLES
    variant,   \* "strict" (part_000) or "basic" (backend/server.js)
    table,     \* scanned_products: a set of rows
    nextId,    \* next value of the SERIAL sequence behind scanned_products.id
    exp,       \* the GET /export request in flight (its locals), or idle
    res        \* what the handler step that ran last did and answered

vars == <<variant, table, nextId, exp, res>>

----------------------------------------------------------------------------
(* JavaScript values of a JSON body and strings of the request path.       *)

Undefined == [t |-> "undefined", s |-> <<>>, n |-> 0]
Str(s) == [t |-> "string", s |-> s, n |-> 0]
Num(n) == [t |-> "number", s |-> <<>>, n |-> n]

\* !v for the value kinds a JSON body field takes here.
Falsy(v) ==
    \/ v.t = "undefined"
    \/ v.t = "string" /\ v.s = <<>>
    \/ v.t = "number" /\ v.n = 0

DigitChars == <<"0", "1", "2", "3", "4", "5", "6", "7", "8", "9">>

IsDigit(c) == \E d \in 1..10 : DigitChars[d] = c

DigitValue(c) == (CHOOSE d \in 1..10 : DigitChars[d] = c) - 1

\* Number.prototype.toString, and node-pg's text form of a number parameter.
RECURSIVE NatToString(_)
NatToString(n) ==
    IF n < 10 THEN <<DigitChars[n + 1]>>
    ELSE NatToString(n \div 10) \o <<DigitChars[(n % 10) + 1]>>

NumberToString(n) == IF n < 0 THEN <<"-">> \o NatToString(0 - n) ELSE NatToString(n)

\* The text without a leading sign.
Unsigned(s) == IF Len(s) > 0 /\ s[1] \in {"-", "+"} THEN Tail(s) ELSE s

\* PostgreSQL's integer input: an optional sign and one or more digits.
PgIntegerSyntax(s) ==
    /\ Len(Unsigned(s)) > 0
    /\ \A i \in 1..Len(Unsigned(s)) : IsDigit(Unsigned(s)[i])

RECURSIVE DigitsValue(_)
DigitsValue(s) ==
    IF s = <<>> THEN 0
    ELSE 10 * DigitsValue(SubSeq(s, 1, Len(s) - 1)) + DigitValue(s[Len(s)])

PgInteger(s) ==
    IF Len(s) > 0 /\ s[1] = "-" THEN 0 - DigitsValue(Unsigned(s)) ELSE DigitsValue(Unsigned(s))

\* isNaN(id) on a path string: Number(id) is NaN unless id is a numeric literal.
\* Covers signed decimal literals with an optional fraction (the id strings used
\* here hold digits, "." and letters; no exponent, radix prefix or blank).
IsNaN(s) ==
    LET u == Unsigned(s)
        dots == {i \in 1..Len(u) : u[i] = "."}
    IN  ~ ( /\ \A i \in 1..Len(u) : IsDigit(u[i]) \/ u[i] = "."
            /\ Cardinality(dots) <= 1
            /\ \E i \in 1..Len(u) : IsDigit(u[i]) )

getSessionId(authorization) ==
    IF authorization = "" THEN "anonymous" ELSE authorization

----------------------------------------------------------------------------
(* Inputs.                                                                 *)

\* Authorization header values; "" is the absent header.
Headers == {"", "s1"}

Sessions == {getSessionId(h) : h \in Headers}

ABC1 == <<"A", "B", "C", "1">>
Widget == <<"W">>
LongCode == [i \in 1..(MaxCodeLen + 1) |-> "X"]

\* Request bodies {code, name, quantity}.
Bodies ==
    { [code |-> Str(ABC1),     name |-> Str(Widget), quantity |-> Num(3)],
      [code |-> Str(ABC1),     name |-> Str(Widget), quantity |-> Num(4)],
      [code |-> Num(12),       name |-> Str(Widget), quantity |-> Num(-1)],
      [code |-> Str(ABC1),     name |-> Str(Widget), quantity |-> Num(0)],
      [code |-> Undefined,     name |-> Str(Widget), quantity |-> Num(3)],
      [code |-> Str(ABC1),     name |-> Str(<<>>),   quantity |-> Num(3)],
      [code |-> Str(LongCode), name |-> Str(Widget), quantity |-> Num(3)] }

\* :id path segments.
IdParams == {NatToString(i) : i \in 1..MaxId} \cup {<<"1", ".", "5">>, <<"a", "b", "c">>}

----------------------------------------------------------------------------
(* The store: table scanned_products and the statements issued against it. *)

\* code column: VARCHAR(50) in part_000, INTEGER in backend/server.js.  Does
\* the store accept the parameter for that column?
CodeAccepted(v) ==
    IF variant = "strict"
    THEN \/ v.t = "number"
         \/ v.t = "string" /\ Len(v.s) <= MaxCodeLen
    ELSE \/ v.t = "number"
         \/ v.t = "string" /\ PgIntegerSyntax(v.s)

\* The column value as a later SELECT returns it.
CodeStored(v) ==
    IF variant = "strict"
    THEN IF v.t = "number" THEN Str(NumberToString(v.n)) ELSE v
    ELSE IF v.t = "number" THEN v ELSE Num(PgInteger(v.s))

\* parseInt(quantity): the integer prefix of the value's text.
parseInt(v) == PgInteger(IF v.t = "number" THEN NumberToString(v.n) ELSE v.s)

\* The SELECT without its WHERE clause.
AllRows(sid) == table

\* WHERE session_id = $1
SessionRows(sid) == {r \in table : r.session_id = sid}

\* The WHERE clause without "AND session_id = $2".
AnyById(id, sid) == {r \in table : r.id = id}

\* WHERE id = $1 AND session_id = $2
OwnedById(id, sid) == {r \in table : r.id = id /\ r.session_id = sid}

\* The purge without its WHERE clause.
PurgedAll(sid) == table

\* DELETE FROM scanned_products WHERE session_id = $1
PurgedRows(sid) == {r \in table : r.session_id = sid}

RECURSIVE SumQuantity(_)
SumQuantity(rs) ==
    IF rs = {} THEN 0
    ELSE LET r == CHOOSE x \in rs : TRUE
         IN  r.quantity + SumQuantity(rs \ {r})

\* The aggregation with COUNT(*) in place of SUM(quantity).
AggregateCount(rs) ==
    { [code |-> g[1], name |-> g[2],
       total_quantity |->
           NumberToString(Cardinality({r \in rs : r.code = g[1] /\ r.name = g[2]}))]
      : g \in {<<r.code, r.name>> : r \in rs} }

\* SELECT code, name, SUM(quantity) as total_quantity ... GROUP BY code, name.
\* SUM over an INTEGER column is a bigint, which the client library hands over
\* as its decimal text.
Aggregate(rs) ==
    { [code |-> g[1], name |-> g[2],
       total_quantity |->
           NumberToString(SumQuantity({r \in rs : r.code = g[1] /\ r.name = g[2]}))]
      : g \in {<<r.code, r.name>> : r \in rs} }

----------------------------------------------------------------------------
(* Responses.                                                              *)

\* No response has been written.
NoStatus == 0

\* What becomes of an exception that leaves an async handler: the request is
\* left without a response, or the framework's error handler answers 500.
UncaughtOutcomes == {NoStatus, 500}

\* The record of one handler step: the request (op, sid), the answer
\* (status, id, rows, sheet) and what the step did to the store.
Event(op, sid, status) ==
    [op |-> op, sid |-> sid, status |-> status, id |-> 0,
     rows |-> {}, sheet |-> {}, queried |-> FALSE, fault |-> FALSE,
     counted |-> {}, purged |-> {}, seq |-> 0]

Idle == [pc |-> "idle", sid |-> "", rows |-> {}, counted |-> {}, seq |-> 0]

----------------------------------------------------------------------------
(* Handlers.                                                               *)

Init ==
    /\ variant \in {"strict", "basic"}
    /\ table = {}
    /\ nextId = 1
    /\ exp = Idle
    /\ res = Event("listen", "", NoStatus)

\* INSERT INTO scanned_products (code, name, quantity, session_id)
\* VALUES (...) RETURNING id, and the handler's answer.  storeDown: the store
\* fails the statement.
Insert(sid, b, quantity, storeDown) ==
    LET ev == [Event("create", sid, 500) EXCEPT !.queried = TRUE]
    IN  IF storeDown \/ ~CodeAccepted(b.code)
        THEN /\ res' = [ev EXCEPT !.fault = TRUE]
             /\ UNCHANGED <<table, nextId>>
        ELSE /\ nextId <= MaxId
             /\ table' = table \cup
                    {[id |-> nextId, code |-> CodeStored(b.code), name |-> b.name.s,
                      quantity |-> quantity, session_id |-> sid]}
             /\ nextId' = nextId + 1
             /\ res' = [ev EXCEPT !.status = 200, !.id = nextId]

\* app.post('/save') of part_000.
PostSaveStrict(authorization, b) ==
    LET sid == getSessionId(authorization)
        ev  == Event("create", sid, 400)
    IN  /\ variant = "strict"
        /\ UNCHANGED <<variant, exp>>
        /\ IF Falsy(b.code) \/ Falsy(b.name) \/ Falsy(b.quantity)
           THEN res' = ev /\ UNCHANGED <<table, nextId>>
           ELSE IF b.code.t = "number"
           THEN \* "code = code.toString()" assigns to a const binding: TypeError,
                \* outside the try block.
                /\ \E st \in UncaughtOutcomes : res' = [ev EXCEPT !.status = st]
                /\ UNCHANGED <<table, nextId>>
           ELSE IF b.code.t # "string"
           THEN res' = ev /\ UNCHANGED <<table, nextId>>
           ELSE IF Len(b.code.s) > MaxCodeLen
           THEN res' = ev /\ UNCHANGED <<table, nextId>>
           ELSE \E storeDown \in BOOLEAN : Insert(sid, b, parseInt(b.quantity), storeDown)

\* app.post('/save') of backend/server.js.
PostSaveBasic(authorization, b) ==
    LET sid == getSessionId(authorization)
    IN  /\ variant = "basic"
        /\ UNCHANGED <<variant, exp>>
        /\ IF Falsy(b.code) \/ Falsy(b.name) \/ Falsy(b.quantity)
           THEN /\ res' = Event("create", sid, 400)
                /\ UNCHANGED <<table, nextId>>
           ELSE \E storeDown \in BOOLEAN : Insert(sid, b, b.quantity.n, storeDown)

\* app.put('/save/:id').
PutSave(authorization, id, b) ==
    LET sid == getSessionId(authorization)
        ev  == Event("update", sid, 400)
    IN  /\ UNCHANGED <<variant, nextId, exp>>
        /\ IF Falsy(b.code) \/ Falsy(b.name) \/ Falsy(b.quantity) \/ id = <<>>
           THEN res' = ev /\ UNCHANGED table
           ELSE \E storeDown \in BOOLEAN :
                IF storeDown \/ ~PgIntegerSyntax(id) \/ ~CodeAccepted(b.code)
                THEN /\ res' = [ev EXCEPT !.status = 500, !.queried = TRUE, !.fault = TRUE]
                     /\ UNCHANGED table
                ELSE LET matched == OwnedById(PgInteger(id), sid)
                     IN  IF matched = {}
                         THEN /\ res' = [ev EXCEPT !.status = 404, !.queried = TRUE,
                                                   !.id = PgInteger(id)]
                              /\ UNCHANGED table
                         ELSE /\ table' = (table \ matched) \cup
                                    {[r EXCEPT !.code = CodeStored(b.code),
                                               !.name = b.name.s,
                                               !.quantity = b.quantity.n] : r \in matched}
                              /\ res' = [ev EXCEPT !.status = 200, !.queried = TRUE,
                                                   !.id = PgInteger(id)]

\* app.delete('/delete/:id').
DeleteById(authorization, id) ==
    LET sid == getSessionId(authorization)
        ev  == Event("delete", sid, 400)
    IN  /\ UNCHANGED <<variant, nextId, exp>>
        /\ IF id = <<>> \/ IsNaN(id)
           THEN res' = ev /\ UNCHANGED table
           ELSE \E storeDown \in BOOLEAN :
                IF storeDown \/ ~PgIntegerSyntax(id)
                THEN /\ res' = [ev EXCEPT !.status = 500, !.queried = TRUE, !.fault = TRUE]
                     /\ UNCHANGED table
                ELSE LET matched == OwnedById(PgInteger(id), sid)
                     IN  IF matched = {}
                         THEN /\ res' = [ev EXCEPT !.status = 404, !.queried = TRUE,
                                                   !.id = PgInteger(id)]
                              /\ UNCHANGED table
                         ELSE /\ table' = table \ matched
                              /\ res' = [ev EXCEPT !.status = 200, !.queried = TRUE,
                                                   !.id = PgInteger(id)]

\* SELECT * FROM scanned_products WHERE session_id = $1, answered as JSON.
Select(op, sid) ==
    /\ UNCHANGED <<variant, table, nextId, exp>>
    /\ \E storeDown \in BOOLEAN :
          IF storeDown
          THEN res' = [Event(op, sid, 500) EXCEPT !.queried = TRUE, !.fault = TRUE]
          ELSE res' = [Event(op, sid, 200) EXCEPT !.queried = TRUE, !.rows = SessionRows(sid)]

\* app.get('/records').
GetRecords(authorization) == Select("records", getSessionId(authorization))

\* app.get('/recover').
GetRecover(authorization) == Select("recover", getSessionId(authorization))

\* app.get('/export') up to "await pool.query(SELECT ... GROUP BY code, name)".
ExportRead(authorization) ==
    LET sid == getSessionId(authorization)
    IN  /\ exp.pc = "idle"
        /\ UNCHANGED <<variant, table, nextId>>
        /\ \E storeDown \in BOOLEAN :
              IF storeDown
              THEN /\ res' = [Event("export", sid, 500) EXCEPT !.queried = TRUE, !.fault = TRUE]
                   /\ UNCHANGED exp
              ELSE /\ exp' = [pc |-> "build", sid |-> sid,
                              rows |-> Aggregate(SessionRows(sid)),
                              counted |-> {r.id : r \in SessionRows(sid)},
                              seq |-> nextId]
                   /\ res' = [Event("export_read", sid, NoStatus) EXCEPT
                                 !.queried = TRUE, !.sheet = exp'.rows,
                                 !.counted = exp'.counted, !.seq = nextId]

\* app.get('/export') from "await workbook.xlsx.writeBuffer()" to the call that
\* issues the purge: the buffer is built, the response is sent with res.send.
ExportSend ==
    /\ exp.pc = "build"
    /\ UNCHANGED <<variant, table, nextId>>
    /\ \E built \in BOOLEAN :
          IF ~built
          THEN /\ res' = [Event("export", exp.sid, 500) EXCEPT !.queried = TRUE]
               /\ exp' = Idle
          ELSE /\ res' = [Event("export", exp.sid, 200) EXCEPT
                             !.queried = TRUE, !.sheet = exp.rows,
                             !.counted = exp.counted, !.seq = exp.seq]
               /\ exp' = [exp EXCEPT !.pc = "purge"]

\* app.get('/export'): DELETE FROM scanned_products WHERE session_id = $1 and
\* the catch block.  The response went out before the purge, so the catch
\* block's res.status(500).json(...) throws on the sent headers and the client
\* keeps the 200.
ExportPurge ==
    /\ exp.pc = "purge"
    /\ UNCHANGED <<variant, nextId>>
    /\ exp' = Idle
    /\ LET ev == [Event("purge", exp.sid, 200) EXCEPT
                     !.queried = TRUE, !.sheet = exp.rows,
                     !.counted = exp.counted, !.seq = exp.seq]
       IN  \E storeDown \in BOOLEAN :
              IF storeDown
              THEN /\ res' = [ev EXCEPT !.fault = TRUE]
                   /\ UNCHANGED table
              ELSE /\ table' = table \ PurgedRows(exp.sid)
                   /\ res' = [ev EXCEPT !.purged = {r.id : r \in PurgedRows(exp.sid)}]

Next ==
    \/ \E h \in Headers, b \in Bodies : PostSaveStrict(h, b)
    \/ \E h \in Headers, b \in Bodies : PostSaveBasic(h, b)
    \/ \E h \in Headers, id \in IdParams, b \in Bodies : PutSave(h, id, b)
    \/ \E h \in Headers, id \in IdParams : DeleteById(h, id)
    \/ \E h \in Headers : GetRecords(h)
    \/ \E h \in Headers : GetRecover(h)
    \/ \E h \in Headers : ExportRead(h)
    \/ ExportSend
    \/ ExportPurge

Spec == Init /\ [][Next]_vars

----------------------------------------------------------------------------
(* Properties.                                                             *)

IsList(ev) == ev.op \in {"records", "recover"} /\ ev.status = 200

\* The quantity the row with this id adds to the group (code, name) of sid.
QuantityOf(id, sid, code, name) ==
    LET m == {r \in table : /\ r.id = id /\ r.session_id = sid
                            /\ r.code = code /\ r.name = name}
    IN  IF m = {} THEN 0 ELSE (CHOOSE r \in m : TRUE).quantity

\* The sum of quantity over the rows of sid with this (code, name), id by id.
RECURSIVE TotalUpTo(_, _, _, _)
TotalUpTo(k, sid, code, name) ==
    IF k = 0 THEN 0
    ELSE QuantityOf(k, sid, code, name) + TotalUpTo(k - 1, sid, code, name)

\* C1: a List (/records or /recover) answers only rows of the table whose
\* session_id is the requesting session, and an Export's aggregation read
\* counts only such rows: every sheet row is a (code, name) of the requesting
\* session and its total is the sum over that session's rows alone.
\* (In the state after either read the table is the table that was read.)
ReadIsolation ==
    /\ IsList(res) =>
          /\ res.rows \subseteq table
          /\ \A r \in res.rows : r.session_id = res.sid
    /\ res.op = "export_read" =>
          /\ \A id \in res.counted :
                \E r \in table : r.id = id /\ r.session_id = res.sid
          /\ \A x \in res.sheet :
                /\ \E r \in table : /\ r.session_id = res.sid
                                    /\ r.code = x.code /\ r.name = x.name
                /\ PgInteger(x.total_quantity)
                      = TotalUpTo(nextId - 1, res.sid, x.code, x.name)

\* A non-empty List answered while the other session holds a record.
ReadIsolationWitness ==
    /\ IsList(res)
    /\ res.rows # {}
    /\ \E r \in table : r.session_id # res.sid

\* C2: a row of another session survives every Update, Delete and purge step
\* unchanged, and an Update or Delete whose statement ran against the id of
\* another session's record is answered 404 and leaves the table as it was.
WriteIsolation ==
    [][\A r \in table :
          /\ (res'.op \in {"update", "delete", "purge"} /\ r.session_id # res'.sid)
                => r \in table'
          /\ (/\ res'.op \in {"update", "delete"}
              /\ res'.id = r.id
              /\ r.session_id # res'.sid)
                => (res'.status = 404 /\ table' = table)]_vars

\* An Update on the id of the other session's record, answered 404.
WriteIsolationWitness ==
    /\ res.op = "update"
    /\ res.status = 404
    /\ \E r \in table : r.id = res.id /\ r.session_id # res.sid

\* C3: a List(S) that is the next request after Export(S) was answered 200
\* (whether or not the purge statement has run yet) returns no rows.
ExportThenListEmpty ==
    [][(/\ res.op \in {"export", "purge"}
        /\ res.status = 200
        /\ IsList(res')
        /\ res'.sid = res.sid)
          => res'.rows = {}]_vars

\* C4: the aggregation read yields exactly one sheet row per (code, name) of
\* the session's rows, and no other; the row's total is the sum of quantity
\* over the session's rows with that (code, name).
ExportAggregation ==
    res.op = "export_read" =>
        /\ \A r \in table : r.session_id = res.sid =>
              Cardinality({x \in res.sheet : x.code = r.code /\ x.name = r.name}) = 1
        /\ \A x \in res.sheet :
              /\ \E r \in table : /\ r.session_id = res.sid
                                  /\ r.code = x.code /\ r.name = x.name
              /\ PgIntegerSyntax(x.total_quantity)
              /\ PgInteger(x.total_quantity)
                    = TotalUpTo(nextId - 1, res.sid, x.code, x.name)

\* Two rows of one (code, name) with quantities 3 and 4, aggregated to 7.
ExportAggregationWitness ==
    /\ res.op = "export_read"
    /\ \E r1, r2 \in table :
          /\ r1.id # r2.id
          /\ r1.session_id = res.sid /\ r2.session_id = res.sid
          /\ r1.code = r2.code /\ r1.name = r2.name
          /\ r1.quantity = 3 /\ r2.quantity = 4
          /\ \E x \in res.sheet :
                /\ x.code = r1.code /\ x.name = r1.name
                /\ x.total_quantity = <<"7">>

\* A POST /save step of either deployment.
PostSave(authorization, b) ==
    PostSaveStrict(authorization, b) \/ PostSaveBasic(authorization, b)

\* A body field that is present, non-null and non-empty.
Present(v) == v.t = "number" \/ (v.t = "string" /\ v.s # <<>>)

\* A body the specification calls valid: the three fields present, the code
\* text or a number, the quantity an integer of any sign or zero.
ValidBody(b) ==
    /\ Present(b.code)
    /\ b.code.t = "string" => Len(b.code.s) <= MaxCodeLen
    /\ Present(b.name) /\ b.name.t = "string"
    /\ b.quantity.t = "number"

\* The code of a body as text.
CodeText(v) == IF v.t = "number" THEN NumberToString(v.n) ELSE v.s

\* C5: a Create with a valid body is answered 200 (unless the store is down)
\* with an id no row has or had; it adds exactly the row (id, code, name,
\* quantity, session) and changes no other row; and the List of that session
\* that follows holds exactly one row with that id, the row of the table.
CreateThenList ==
    [][/\ \A h \in Headers, b \in Bodies :
             (ValidBody(b) /\ PostSave(h, b)) =>
                \/ res'.status = 500 /\ res'.fault /\ table' = table
                \/ /\ res'.status = 200
                   /\ res'.id >= nextId
                   /\ \A r \in table : r.id # res'.id
                   /\ \E r \in table' :
                         /\ table' = table \cup {r}
                         /\ r \notin table
                         /\ r.id = res'.id
                         /\ r.session_id = getSessionId(h)
                         /\ r.code.t = "string" /\ r.code.s = CodeText(b.code)
                         /\ r.name = b.name.s
                         /\ r.quantity = b.quantity.n
       /\ (/\ res.op = "create" /\ res.status = 200
           /\ IsList(res') /\ res'.sid = res.sid)
             => /\ Cardinality({r \in res'.rows : r.id = res.id}) = 1
                /\ \A r \in res'.rows : r.id = res.id => r \in table]_vars

\* C6: in the stricter deployment a Create whose code is a non-zero number,
\* with name and quantity valid, is answered 200 with the id of one new row
\* that carries the code's text; the request does not end without a response.
NumericCodeCoerced ==
    [][\A h \in Headers, b \in Bodies :
          (/\ b.code.t = "number" /\ b.code.n # 0
           /\ ~Falsy(b.name) /\ ~Falsy(b.quantity)
           /\ PostSaveStrict(h, b)) =>
              \/ res'.status = 500 /\ res'.fault
              \/ /\ res'.status = 200
                 /\ \E r \in table' :
                       /\ table' = table \cup {r}
                       /\ r \notin table
                       /\ r.id = res'.id
                       /\ r.code = Str(NumberToString(b.code.n))]_vars

\* C7: a Create, or an Update on a record the session owns, whose code and
\* name are valid and whose quantity is any integer (zero and negatives
\* included) is accepted: it is answered 200 unless the store fails, never 400.
QuantityNotValidated ==
    [][\A h \in Headers, b \in Bodies :
          (/\ b.code.t = "string" /\ b.code.s # <<>> /\ Len(b.code.s) <= MaxCodeLen
           /\ Present(b.name)
           /\ b.quantity.t = "number"
           /\ \/ PostSave(h, b)
              \/ \E id \in IdParams :
                    /\ PgIntegerSyntax(id)
                    /\ OwnedById(PgInteger(id), getSessionId(h)) # {}
                    /\ PutSave(h, id, b)) =>
              (res'.status = 200 \/ (res'.status = 500 /\ res'.fault))]_vars

\* C8: a request one of whose store statements failed is answered 500, and an
\* Export answered 500 has deleted no record.
StoreFailureIs500 ==
    /\ res.fault => res.status = 500
    /\ (res.op = "export" /\ res.status = 500) => res.purged = {}

\* C9: a Delete whose id is not an integer in syntax is answered 400 without a
\* statement being issued, and the table is unchanged.
DeleteIdValidated ==
    [][\A h \in Headers, id \in IdParams :
          (~PgIntegerSyntax(id) /\ DeleteById(h, id)) =>
              (res'.status = 400 /\ ~res'.queried /\ table' = table)]_vars

\* C10: a record that an export's purge removed was either counted by that
\* export's aggregation read or inserted after that read (its id is not below
\* the sequence value at the read); when no Create ran between the read and
\* the purge, every removed record was counted.
PurgedCountedOrRaced ==
    res.op = "purge" =>
        /\ \A id \in res.purged : id \in res.counted \/ id >= res.seq
        /\ nextId = res.seq => res.purged \subseteq res.counted

\* The race: a purge that removed a record its export had not counted.
ExportCreateRace ==
    /\ res.op = "purge"
    /\ \E id \in res.purged : id \notin res.counted

====
